---- MODULE Spec2Model ----
(***************************************************************************)
(* A model of pymtl/misc/numerics.py (vec, unvec, vech, unvech,            *)
(* low_rank_approx, complete_matrix) and of the fit / predict state of     *)
(* pymtl/mtl_linear_regression.py (BayesRegression and                     *)
(* BayesRegressionClassifier).                                             *)
(*                                                                         *)
(* A matrix is a record [shape |-> <<m, n>>, at |-> f] with f defined on   *)
(* (0..m-1) \X (0..n-1), indexed from 0 as numpy does.  A 1-D array is a   *)
(* sequence.  A function of the code that can raise is an operator that    *)
(* returns a record [err |-> e, val |-> x]: e = "" and x the value         *)
(* returned, or e the name of the exception raised.                        *)
(***************************************************************************)
EXTENDS Integers, Sequences, FiniteSets, TLC

VARIABLES
    X,              \* the matrix argument of the call
    v,              \* the 1-D array argument, or the result of vec / vech
    stack_cols,     \* stack_cols / cols_stacked flag of the call
    conserve_norm,  \* conserve_norm / norm_conserved flag of the call
    calls,          \* the functions called so far, in order
    ret,            \* the value returned by the last call
    err,            \* the exception raised by the last call ("" when none)
    r,              \* low_rank_approx: the rank argument
    Z,              \* complete_matrix: the current estimate (None before the seed)
    lam,            \* complete_matrix: the lam argument
    beta,           \* complete_matrix: the beta argument
    max_iter,       \* complete_matrix: the max_iter argument
    tol,            \* complete_matrix: the tol argument
    loss_old,       \* complete_matrix: the local loss_old
    loss_current,   \* complete_matrix: the local loss_current
    conv,           \* complete_matrix: the local conv
    iter,           \* complete_matrix: the number of loop bodies run so far
    pc,             \* complete_matrix: where the call stands
    cls,            \* the class of the regression object
    _prior,         \* its field _prior
    _weights,       \* its field _weights
    _classes        \* its field _classes

hvVars == <<v, stack_cols, conserve_norm>>
cmVars == <<r, Z, lam, beta, max_iter, tol, loss_old, loss_current, conv, iter, pc>>
fitVars == <<cls, _prior, _weights, _classes>>
vars == <<X, calls, ret, err, hvVars, cmVars, fitVars>>

None == "None"

\* None, where a matrix is expected
NoMat == [shape |-> <<>>, at |-> <<>>]

\* A number not assigned yet
Unset == 0 * 1

\* A field of an object: <<>> when it is None, <<x>> when it holds x
NoneField == <<>>

Some(x) == <<x>>

\* The variables of the regression object, unused.
IdleFit ==
    cls = None /\ _prior = NoneField /\ _weights = NoneField /\ _classes = NoneField

Ok(x) == [err |-> "", val |-> x]
Raise(e) == [err |-> e, val |-> NoMat]

(***************************************************************************)
(* Numbers of the half-vectorizer.  The only arithmetic vech and unvech    *)
(* do is a product and a quotient by np.sqrt(2), so an entry is kept       *)
(* exactly as a * sqrt(2)^k: the record [a |-> a, k |-> k].                *)
(***************************************************************************)
Num(a) == [a |-> a, k |-> 0]

Sqrt2Mul(x) == IF x.a = 0 THEN x ELSE [a |-> x.a, k |-> x.k + 1]

Sqrt2Div(x) == IF x.a = 0 THEN x ELSE [a |-> x.a, k |-> x.k - 1]

Min(i, j) == IF i <= j THEN i ELSE j

Max(i, j) == IF i >= j THEN i ELSE j

\* x and y denote the same real number.
NumEq(x, y) ==
    LET lo == Min(x.k, y.k)
    IN  /\ (x.a > 0) = (y.a > 0)
        /\ (x.a < 0) = (y.a < 0)
        /\ x.a * x.a * 2^(x.k - lo) = y.a * y.a * 2^(y.k - lo)

(***************************************************************************)
(* Matrices.                                                               *)
(***************************************************************************)
Idx(m, n) == (0..(m-1)) \X (0..(n-1))

Mat(m, n, f) == [shape |-> <<m, n>>, at |-> f]

\* np.copy(X)
Copy(M) == Mat(M.shape[1], M.shape[2], [ij \in Idx(M.shape[1], M.shape[2]) |-> M.at[ij]])

\* X.T
T(M) == Mat(M.shape[2], M.shape[1],
            [ij \in Idx(M.shape[2], M.shape[1]) |-> M.at[<<ij[2], ij[1]>>]])

\* X.flatten(): the entries in row-major (C) order.
flatten(M) ==
    LET m == M.shape[1]
        n == M.shape[2]
    IN  [p \in 1..(m * n) |-> M.at[<<(p - 1) \div n, (p - 1) % n>>]]

RECURSIVE SqrtSearch(_, _, _)
SqrtSearch(n, lo, hi) ==
    IF lo = hi THEN lo
    ELSE LET mid == (lo + hi + 1) \div 2
         IN  IF mid * mid <= n THEN SqrtSearch(n, mid, hi) ELSE SqrtSearch(n, lo, mid - 1)

\* int(np.sqrt(n)): the largest d with d * d <= n
ISqrt(n) == SqrtSearch(n, 0, Min(n, 2^15))

\* Mutant: a reshape that drops the entries that do not fit.
reshape_truncating(w, m, n) ==
    IF m * n > Len(w)
    THEN Raise("ValueError")
    ELSE Ok(Mat(m, n, [ij \in Idx(m, n) |-> w[ij[1] * n + ij[2] + 1]]))

\* v.reshape(m, n): ValueError unless the sizes agree.
reshape(w, m, n) ==
    IF m * n # Len(w)
    THEN Raise("ValueError")
    ELSE Ok(Mat(m, n, [ij \in Idx(m, n) |-> w[ij[1] * n + ij[2] + 1]]))

(***************************************************************************)
(* vec / unvec                                                             *)
(***************************************************************************)
vec(M, cols) == IF cols THEN flatten(T(M)) ELSE flatten(M)

\* Mutant: the transposition of the column-stacked case is lost.
unvec_no_transpose(w, cols) ==
    LET d == ISqrt(Len(w))
    IN  reshape(w, d, d)

unvec(w, cols) ==
    LET d == ISqrt(Len(w))
        R == reshape(w, d, d)
    IN  IF cols /\ R.err = "" THEN Ok(T(R.val)) ELSE R

(***************************************************************************)
(* vech / unvech                                                           *)
(***************************************************************************)
\* The index lists triu_idx_r, triu_idx_c as one sequence of <<r, c>>.
RECURSIVE triu_by_cols(_)
triu_by_cols(d) ==
    IF d = 0 THEN <<>>
    ELSE triu_by_cols(d - 1) \o [i \in 1..d |-> <<i - 1, d - 1>>]

RECURSIVE triu_by_rows(_, _)
triu_by_rows(row, d) ==
    IF row >= d THEN <<>>
    ELSE [i \in 1..(d - row) |-> <<row, row + i - 1>>] \o triu_by_rows(row + 1, d)

triu_idx(d, cols) == IF cols THEN triu_by_cols(d) ELSE triu_by_rows(0, d)

\* Mutant: the diagonal is scaled too.
scale_triu_with_diagonal(M) ==
    Mat(M.shape[1], M.shape[2],
        [ij \in Idx(M.shape[1], M.shape[2]) |->
            IF ij[1] <= ij[2] THEN Sqrt2Mul(M.at[ij]) ELSE M.at[ij]])

\* tmp[np.triu_indices(d, 1)] = np.sqrt(2) * tmp[np.triu_indices(d, 1)]
scale_triu(M) ==
    Mat(M.shape[1], M.shape[2],
        [ij \in Idx(M.shape[1], M.shape[2]) |->
            IF ij[1] < ij[2] THEN Sqrt2Mul(M.at[ij]) ELSE M.at[ij]])

vech(M, cols, conserve) ==
    IF M.shape[1] # M.shape[2]
    THEN Raise("AssertionError")
    ELSE LET d == M.shape[1]
             tmp == IF conserve THEN scale_triu(Copy(M)) ELSE M
             idx == triu_idx(d, cols)
         IN  Ok([p \in 1..Len(idx) |-> tmp.at[idx[p]]])

\* Mutant: the lower triangle is not filled.
mirror_no_copy(M) == M

\* X[np.tril_indices(d)] = X.T[np.tril_indices(d)]
mirror(M) ==
    Mat(M.shape[1], M.shape[2],
        [ij \in Idx(M.shape[1], M.shape[2]) |->
            IF ij[1] >= ij[2] THEN M.at[<<ij[2], ij[1]>>] ELSE M.at[ij]])

\* X[np.triu_indices(d, 1)] /= np.sqrt(2); X[np.tril_indices(d, -1)] /= np.sqrt(2)
unscale_offdiag(M) ==
    Mat(M.shape[1], M.shape[2],
        [ij \in Idx(M.shape[1], M.shape[2]) |->
            IF ij[1] # ij[2] THEN Sqrt2Div(M.at[ij]) ELSE M.at[ij]])

\* Position of <<r, c>> in the index list (0 when absent).
PosIn(idx, rc) ==
    IF \E p \in 1..Len(idx) : idx[p] = rc
    THEN CHOOSE p \in 1..Len(idx) : idx[p] = rc
    ELSE 0

unvech(w, cols, conserved) ==
    LET d == (ISqrt(8 * Len(w) + 1) - 1) \div 2
        idx == triu_idx(d, cols)
        \* np.empty((d, d)); every entry is written below before it is read
        empty == Mat(d, d, [ij \in Idx(d, d) |-> Num(0)])
        \* X[triu_idx] = v: v must have one value per index, or one value in all
        assigned ==
            Mat(d, d, [ij \in Idx(d, d) |->
                IF PosIn(idx, ij) = 0 THEN empty.at[ij]
                ELSE IF Len(w) = 1 THEN w[1] ELSE w[PosIn(idx, ij)]])
        sym == mirror(assigned)
    IN  IF Len(w) # Len(idx) /\ Len(w) # 1
        THEN Raise("ValueError")
        ELSE Ok(IF conserved THEN unscale_offdiag(sym) ELSE sym)

(***************************************************************************)
(* Inputs of the half-vectorizer specification.                            *)
(***************************************************************************)
MaxDim == 3
MaxSize == 6
MaxLen == 7

Vals == {Num(0), Num(1)}

Matrices(m, n) == {Mat(m, n, f) : f \in [Idx(m, n) -> Vals]}

IsSymmetric(M) ==
    /\ M.shape[1] = M.shape[2]
    /\ \A ij \in Idx(M.shape[1], M.shape[2]) : M.at[ij] = M.at[<<ij[2], ij[1]>>]

SymMatrices(d) == {M \in Matrices(d, d) : IsSymmetric(M)}

\* The matrix [[4, 1], [1, 3]].
ExampleX ==
    Mat(2, 2, [ij \in Idx(2, 2) |->
        IF ij = <<0, 0>> THEN Num(4) ELSE IF ij = <<1, 1>> THEN Num(3) ELSE Num(1)])

\* The symmetric matrices up to MaxDim x MaxDim, every matrix of at most
\* MaxSize entries, symmetric or not, square or not, and the example.
InputMatrices ==
    UNION {SymMatrices(d) : d \in 0..MaxDim}
        \cup UNION {Matrices(mn[1], mn[2]) :
                       mn \in {sh \in (1..MaxSize) \X (1..MaxSize) : sh[1] * sh[2] <= MaxSize}}
        \cup {ExampleX}

InputVectors == UNION {[1..n -> Vals] : n \in 0..MaxLen}

\* The variables of complete_matrix and low_rank_approx, unused.
IdleCM ==
    /\ r = Unset /\ Z = NoMat /\ lam = Unset /\ beta = Unset /\ max_iter = Unset
    /\ tol = Unset /\ loss_old = Unset /\ loss_current = Unset
    /\ conv = [kind |-> "unset", val |-> 0] /\ iter = Unset /\ pc = None

InitHV ==
    /\ IdleCM
    /\ IdleFit
    /\ stack_cols \in BOOLEAN
    /\ conserve_norm \in BOOLEAN
    /\ calls = <<>>
    /\ ret = NoMat
    /\ err = ""
    /\ \/ X \in InputMatrices /\ v = <<>>
       \/ X = NoMat /\ v \in InputVectors /\ v # <<>>

\* v = vec(X, stack_cols)
CallVec ==
    /\ calls = <<>>
    /\ v = <<>>
    /\ calls' = <<"vec">>
    /\ v' = vec(X, stack_cols)
    /\ ret' = v'
    /\ err' = ""
    /\ UNCHANGED <<X, stack_cols, conserve_norm, cmVars, fitVars>>

\* unvec(v, cols_stacked), on the result of vec or on a given array
CallUnvec ==
    /\ \/ calls = <<"vec">>
       \/ calls = <<>> /\ X = NoMat
    /\ \E R \in {unvec(v, stack_cols)} :
           /\ ret' = R.val
           /\ err' = R.err
    /\ calls' = Append(calls, "unvec")
    /\ UNCHANGED <<X, v, stack_cols, conserve_norm, cmVars, fitVars>>

\* v = vech(X, stack_cols, conserve_norm)
CallVech ==
    /\ calls = <<>>
    /\ v = <<>>
    /\ \E R \in {vech(X, stack_cols, conserve_norm)} :
           /\ ret' = R.val
           /\ err' = R.err
           /\ v' = IF R.err = "" THEN R.val ELSE v
    /\ calls' = <<"vech">>
    /\ UNCHANGED <<X, stack_cols, conserve_norm, cmVars, fitVars>>

\* unvech(v, cols_stacked, norm_conserved), on the result of vech or on a given array
CallUnvech ==
    /\ \/ calls = <<"vech">> /\ err = ""
       \/ calls = <<>> /\ X = NoMat
    /\ \E R \in {unvech(v, stack_cols, conserve_norm)} :
           /\ ret' = R.val
           /\ err' = R.err
    /\ calls' = Append(calls, "unvech")
    /\ UNCHANGED <<X, v, stack_cols, conserve_norm, cmVars, fitVars>>

NextHV == CallVec \/ CallUnvec \/ CallVech \/ CallUnvech

SpecHV == InitHV /\ [][NextHV]_vars

(***************************************************************************)
(* Properties of the half-vectorizer.                                      *)
(***************************************************************************)
SameMatrix(A, B) ==
    /\ A.shape = B.shape
    /\ \A ij \in Idx(A.shape[1], A.shape[2]) : NumEq(A.at[ij], B.at[ij])

IsSquare(M) == M.shape[1] = M.shape[2]

\* C2 as stated: for every m x n matrix X and both stacking orders,
\* unvec(vec(X, s), s) returns a matrix equal to X, shape and entries.
C2_VecRoundTripAnyShape ==
    calls = <<"vec", "unvec">> => (err = "" /\ ret = X)

\* C2 as amended: the round trip returns X exactly for every square X; for a
\* non-square X it raises ValueError or returns a square matrix, never X.
C2_VecRoundTripSquare ==
    calls = <<"vec", "unvec">> =>
        /\ IsSquare(X) => (err = "" /\ ret = X)
        /\ ~IsSquare(X) => (err = "ValueError" \/ (IsSquare(ret) /\ ret.shape # X.shape))

\* A square matrix that is not symmetric has made the round trip by columns.
C2_Witness ==
    /\ calls = <<"vec", "unvec">>
    /\ X.shape = <<2, 2>>
    /\ X.at[<<0, 1>>] # X.at[<<1, 0>>]
    /\ stack_cols
    /\ err = ""
    /\ ret = X

\* The square of a * sqrt(2)^k, an integer when k >= 0.
Sq(x) == x.a * x.a * 2^(x.k)

RECURSIVE SumSqSeq(_)
SumSqSeq(w) == IF w = <<>> THEN 0 ELSE Sq(Head(w)) + SumSqSeq(Tail(w))

SumSqMat(M) == SumSqSeq(flatten(M))

\* Where the entry (i, j), i <= j, of a d x d matrix lies in the output.
PosByCols(i, j) == (j * (j + 1)) \div 2 + i + 1

PosByRows(i, j, d) == i * d - (i * (i - 1)) \div 2 + (j - i) + 1

IsPerfectSquare(n) == \E d \in 0..n : d * d = n

IsTriangular(n) == \E d \in 0..n : d * (d + 1) = 2 * n

LastCall == IF calls = <<>> THEN "" ELSE calls[Len(calls)]

\* C9: vech of a non-square X, unvec of a sequence whose length is no perfect
\* square, and unvech of a sequence whose length is no triangular number all
\* fail with an error instead of returning a result.
C9_InvalidShapeRaises ==
    /\ (calls = <<"vech">> /\ ~IsSquare(X)) => (err # "" /\ ret = NoMat)
    /\ (LastCall = "unvec" /\ ~IsPerfectSquare(Len(v))) => (err # "" /\ ret = NoMat)
    /\ (LastCall = "unvech" /\ ~IsTriangular(Len(v))) => (err # "" /\ ret = NoMat)

\* unvech has been called on a sequence of 5 entries, between the triangular
\* numbers 3 and 6.
C9_Witness ==
    /\ calls = <<"unvech">>
    /\ Len(v) = 5
    /\ err = "ValueError"

(***************************************************************************)
(* Real arithmetic of low_rank_approx and complete_matrix.  A float is     *)
(* kept in fixed point: the integer x stands for x / Scale.  The entries   *)
(* of the singular vectors are plain integers (-1, 0, 1).                  *)
(***************************************************************************)
Scale == 10^3

Abs(x) == IF x < 0 THEN -x ELSE x

FMul(x, y) == (x * y) \div Scale

FDiv(x, y) == (x * Scale) \div y

\* np.log(2)
Ln2 == (693147 * Scale) \div 10^6

\* np.log(x), for x >= 1
RECURSIVE Ln(_)
Ln(x) ==
    IF x >= 2 * Scale
    THEN Ln2 + Ln(x \div 2)
    ELSE LET y == FDiv(x - Scale, x + Scale)
             y2 == FMul(y, y)
             t3 == FMul(y, y2)
             t5 == FMul(t3, y2)
             t7 == FMul(t5, y2)
         IN  2 * (y + t3 \div 3 + t5 \div 5 + t7 \div 7)

RECURSIVE SumSeq(_)
SumSeq(w) == IF w = <<>> THEN 0 ELSE Head(w) + SumSeq(Tail(w))

\* np.zeros((m, n))
zeros(m, n) == Mat(m, n, [ij \in Idx(m, n) |-> 0])

\* np.outer(a, b)
outer(a, b) == Mat(Len(a), Len(b), [ij \in Idx(Len(a), Len(b)) |-> a[ij[1] + 1] * b[ij[2] + 1]])

\* c * M
scalar_mul(c, M) ==
    Mat(M.shape[1], M.shape[2], [ij \in Idx(M.shape[1], M.shape[2]) |-> c * M.at[ij]])

\* M[i]: row i of M as a 1-D array
row(M, i) == [j \in 1..M.shape[2] |-> M.at[<<i, j - 1>>]]

\* np.diag(d)
diag(d) == Mat(Len(d), Len(d),
               [ij \in Idx(Len(d), Len(d)) |-> IF ij[1] = ij[2] THEN d[ij[1] + 1] ELSE 0])

\* A.dot(B): ValueError when the inner dimensions differ.  One of the two
\* factors holds plain integers, so the products need no rescaling.
RECURSIVE DotSum(_, _, _, _, _)
DotSum(A, B, i, j, k) ==
    IF k = 0 THEN 0
    ELSE A.at[<<i, k - 1>>] * B.at[<<k - 1, j>>] + DotSum(A, B, i, j, k - 1)

dot(A, B) ==
    IF A.shape[2] # B.shape[1]
    THEN Raise("ValueError")
    ELSE Ok(Mat(A.shape[1], B.shape[2],
                [ij \in Idx(A.shape[1], B.shape[2]) |-> DotSum(A, B, ij[1], ij[2], A.shape[2])]))

\* A += B: B is broadcast to the shape of A, ValueError when it cannot be.
iadd(A, B) ==
    IF \E ax \in 1..2 : B.shape[ax] # A.shape[ax] /\ B.shape[ax] # 1
    THEN Raise("ValueError")
    ELSE Ok(Mat(A.shape[1], A.shape[2],
                [ij \in Idx(A.shape[1], A.shape[2]) |->
                    A.at[ij] + B.at[<<IF B.shape[1] = 1 THEN 0 ELSE ij[1],
                                      IF B.shape[2] = 1 THEN 0 ELSE ij[2]>>]]))

RECURSIVE SumSquares(_)
SumSquares(w) == IF w = <<>> THEN 0 ELSE Head(w) * Head(w) + SumSquares(Tail(w))

\* np.linalg.norm(M, ord='fro')
fro(M) == ISqrt(SumSquares(flatten(M)))

(***************************************************************************)
(* np.linalg.svd, on the matrices with at most one nonzero entry in every  *)
(* row and in every column, where the decomposition is a permutation: the  *)
(* singular values are the absolute values of the entries in descending    *)
(* order (ties in index order), u carries the rows and the signs, v the    *)
(* columns, and unit vectors of the unused rows and columns complete them. *)
(***************************************************************************)
\* The cell c comes before the cell d in the order of the singular values.
CellBefore(M, c, d) ==
    \/ Abs(M.at[c]) > Abs(M.at[d])
    \/ Abs(M.at[c]) = Abs(M.at[d]) /\ (c[1] < d[1] \/ (c[1] = d[1] /\ c[2] <= d[2]))

RECURSIVE SortCells(_, _)
SortCells(M, S) ==
    IF S = {} THEN <<>>
    ELSE LET c == CHOOSE c \in S : \A d \in S : CellBefore(M, c, d)
         IN  <<c>> \o SortCells(M, S \ {c})

RECURSIVE SortAsc(_)
SortAsc(S) ==
    IF S = {} THEN <<>>
    ELSE LET x == CHOOSE x \in S : \A y \in S : x <= y
         IN  <<x>> \o SortAsc(S \ {x})

svd(M, full_matrices) ==
    LET m == M.shape[1]
        n == M.shape[2]
        k == Min(m, n)
        cells == SortCells(M, {ij \in Idx(m, n) : M.at[ij] # 0})
        nz == Len(cells)
        rowOrder == [i \in 1..nz |-> cells[i][1]]
                        \o SortAsc((0..(m - 1)) \ {cells[i][1] : i \in 1..nz})
        colOrder == [i \in 1..nz |-> cells[i][2]]
                        \o SortAsc((0..(n - 1)) \ {cells[i][2] : i \in 1..nz})
        sgn(i) == IF i <= nz /\ M.at[cells[i]] < 0 THEN -1 ELSE 1
        uc == IF full_matrices THEN m ELSE k
        vr == IF full_matrices THEN n ELSE k
    IN  [u |-> Mat(m, uc, [ij \in Idx(m, uc) |->
                     IF rowOrder[ij[2] + 1] = ij[1] THEN sgn(ij[2] + 1) ELSE 0]),
         s |-> [i \in 1..k |-> IF i <= nz THEN Abs(M.at[cells[i]]) ELSE 0],
         v |-> Mat(vr, n, [ij \in Idx(vr, n) |->
                     IF colOrder[ij[1] + 1] = ij[2] THEN 1 ELSE 0])]

(***************************************************************************)
(* low_rank_approx                                                         *)
(***************************************************************************)
\* Z = np.zeros((len(u), len(v)))
lra_zeros(sv) == zeros(sv.u.shape[1], sv.v.shape[1])

\* for i in xrange(rank): Z += s[i] * np.outer(u.T[i], v[i])
RECURSIVE lra_loop(_, _, _, _)
lra_loop(sv, rank, i, acc) ==
    IF i >= rank THEN Ok(acc)
    ELSE IF i >= Len(sv.s) THEN Raise("IndexError")
    ELSE LET term == scalar_mul(sv.s[i + 1], outer(row(T(sv.u), i), row(sv.v, i)))
             R == iadd(acc, term)
         IN  IF R.err # "" THEN R ELSE lra_loop(sv, rank, i + 1, R.val)

low_rank_approx(M, rank) ==
    LET sv == svd(M, FALSE)
    IN  lra_loop(sv, rank, 0, lra_zeros(sv))

(***************************************************************************)
(* complete_matrix                                                         *)
(***************************************************************************)
sigma == 1

\* 0.999999999999, as the largest factor below 1 the fixed point can hold
Eps == Scale - 1

\* Mutant: the 10% of the row count is rounded to the nearest integer.
seed_rank_rounded(m) == Max(1, (m + 5) \div 10)

\* int(max(1, X.shape[0]*0.1))
seed_rank(m) == Max(Scale, FMul(m * Scale, Scale \div 10)) \div Scale

RECURSIVE SeqMax(_)
SeqMax(w) == IF Len(w) = 1 THEN w[1] ELSE Max(Head(w), SeqMax(Tail(w)))

\* lam = lam * np.max(d_X) * 0.999999999999; a = lam * beta; b = beta
shape_a(M, lam0, beta0) == FMul(FMul(FMul(lam0, SeqMax(svd(M, TRUE).s)), Eps), beta0)

\* def loss(Z)
loss(M, a, b) ==
    LET s == svd(M, TRUE).s
        fit == FMul(FDiv(Scale, 2 * sigma * Scale), fro(M))
        reg == SumSeq([i \in 1..Len(s) |-> FMul(a + Scale, Ln(b + s[i]))])
    IN  fit + reg

\* d_X - omega: 1-D arrays of equal length, or one of length 1
vsub(p, q) ==
    IF Len(p) # Len(q) /\ Len(p) # 1 /\ Len(q) # 1
    THEN Raise("ValueError")
    ELSE Ok([i \in 1..Max(Len(p), Len(q)) |->
                p[IF Len(p) = 1 THEN 1 ELSE i] - q[IF Len(q) = 1 THEN 1 ELSE i]])

\* D_omega[D_omega < 0] = 0
clip(M) ==
    Mat(M.shape[1], M.shape[2],
        [ij \in Idx(M.shape[1], M.shape[2]) |-> IF M.at[ij] < 0 THEN 0 ELSE M.at[ij]])

\* The E-step and the M-step: the new Z, or the exception raised.
em_step(M, est, a, b) ==
    LET SX == svd(M, TRUE)
        d_Z == svd(est, TRUE).s
        omega == [i \in 1..Len(d_Z) |-> FDiv(a + Scale, b + d_Z[i])]
        diff == vsub(SX.s, omega)
        inner == dot(clip(diag(diff.val)), SX.v)
    IN  IF diff.err # "" THEN diff
        ELSE IF inner.err # "" THEN inner
        ELSE dot(SX.u, inner.val)

\* conv = np.abs(loss_old - loss_current) / loss_old: a float64 quotient, that
\* is nan or inf (with a RuntimeWarning) when loss_old is zero.
convergence(lo, lc) ==
    IF lo = 0
    THEN [kind |-> IF lc = lo THEN "nan" ELSE "inf", val |-> 0]
    ELSE [kind |-> "num", val |-> FDiv(Abs(lo - lc), lo)]

\* Mutant: the convergence test never ends the loop.
should_break_never(lc, cv, tl) == FALSE

\* if loss_current == 0 or conv < tol: break
should_break(lc, cv, tl) == lc = 0 \/ (cv.kind = "num" /\ cv.val < tl)

(***************************************************************************)
(* Inputs of low_rank_approx and complete_matrix.                          *)
(***************************************************************************)
MaxSide == 2
MaxTall == 20
MaxRank == 3
MaxIter == 3

NzVals == {-Scale, 2 * Scale}

RECURSIVE SubsetsUpTo(_, _)
SubsetsUpTo(S, k) ==
    IF k = 0 THEN {{}}
    ELSE LET P == SubsetsUpTo(S, k - 1)
         IN  P \cup {p \cup {x} : p \in P, x \in S}

\* The m x n matrices with at most one nonzero entry in every row and column,
\* the nonzero entries taken from Vs.
MonomialMatrices(m, n, Vs) ==
    UNION {
        {Mat(m, n, [ij \in Idx(m, n) |->
                      IF ij[1] \in R /\ g[ij[1]][1] = ij[2] THEN g[ij[1]][2] ELSE 0]) :
            g \in {h \in [R -> (0..(n - 1)) \X Vs] :
                      \A i, j \in R : i # j => h[i][1] # h[j][1]}} :
        R \in SubsetsUpTo(0..(m - 1), Min(m, n))}

\* Tall, square and wide matrices up to MaxSide x MaxSide.
LowRankInputs ==
    UNION {MonomialMatrices(mn[1], mn[2], NzVals) : mn \in (1..MaxSide) \X (1..MaxSide)}

\* Matrices of one and two columns and up to MaxTall rows.
TallInputs ==
    UNION {MonomialMatrices(mn[1], mn[2], {Scale}) : mn \in (1..MaxTall) \X {1, 2}}

IdleHV == v = <<>> /\ stack_cols = FALSE /\ conserve_norm = FALSE

InitLRA ==
    /\ IdleHV
    /\ IdleFit
    /\ X \in LowRankInputs
    /\ r \in (-1)..MaxRank
    /\ calls = <<>>
    /\ ret = NoMat
    /\ err = ""
    /\ Z = NoMat /\ lam = Unset /\ beta = Unset /\ max_iter = Unset
    /\ tol = Unset /\ loss_old = Unset /\ loss_current = Unset
    /\ conv = [kind |-> "unset", val |-> 0] /\ iter = Unset /\ pc = None

\* low_rank_approx(X, r)
CallLowRankApprox ==
    /\ calls = <<>>
    /\ \E R \in {low_rank_approx(X, r)} :
           /\ ret' = R.val
           /\ err' = R.err
    /\ calls' = <<"low_rank_approx">>
    /\ UNCHANGED <<X, hvVars, cmVars, fitVars>>

NextLRA == CallLowRankApprox

SpecLRA == InitLRA /\ [][NextLRA]_vars

InitCM ==
    /\ IdleHV
    /\ IdleFit
    /\ X \in LowRankInputs
    /\ Z \in {NoMat, zeros(X.shape[1], X.shape[2]), X}
    /\ lam \in {0, Scale}
    /\ beta \in {Scale, 2 * Scale}
    /\ max_iter \in 0..MaxIter
    /\ tol \in {Scale \div 1000, Scale \div 10}
    /\ r = Unset
    /\ loss_old = Unset
    /\ loss_current = Unset
    /\ conv = [kind |-> "unset", val |-> 0]
    /\ iter = 0
    /\ pc = "start"
    /\ calls = <<>>
    /\ ret = NoMat
    /\ err = ""

CanEnter == pc = "start"

CanIterate == pc = "loop" /\ iter < max_iter

CanReturn == pc = "break" \/ (pc = "loop" /\ iter >= max_iter)

\* complete_matrix up to the loop: the seed, the parameters, the initial loss.
CMEnter ==
    /\ CanEnter
    /\ \E seeded \in {Z = NoMat} :
       \E rank \in {seed_rank(X.shape[1])} :
       \E S \in {IF seeded THEN low_rank_approx(X, rank) ELSE Ok(Z)} :
           /\ calls' = IF seeded THEN <<"complete_matrix", "low_rank_approx">>
                                 ELSE <<"complete_matrix">>
           /\ r' = IF seeded THEN rank ELSE r
           /\ IF S.err # ""
              THEN /\ err' = S.err
                   /\ pc' = "raised"
                   /\ UNCHANGED <<Z, loss_old>>
              ELSE /\ Z' = S.val
                   /\ loss_old' = loss(S.val, shape_a(X, lam, beta), beta)
                   /\ pc' = "loop"
                   /\ err' = ""
    /\ UNCHANGED <<X, ret, hvVars, fitVars, lam, beta, max_iter, tol, loss_current, conv, iter>>

\* One pass of the loop body.
CMIterate ==
    /\ CanIterate
    /\ \E a \in {shape_a(X, lam, beta)} :
       \E S \in {em_step(X, Z, a, beta)} :
           IF S.err # ""
           THEN /\ err' = S.err
                /\ pc' = "raised"
                /\ UNCHANGED <<Z, loss_old, loss_current, conv, iter>>
           ELSE \E lc \in {loss(S.val, a, beta)} :
                \E cv \in {convergence(loss_old, lc)} :
                    /\ Z' = S.val
                    /\ loss_current' = lc
                    /\ conv' = cv
                    /\ iter' = iter + 1
                    /\ err' = ""
                    /\ IF should_break(lc, cv, tol)
                       THEN pc' = "break" /\ loss_old' = loss_old
                       ELSE pc' = "loop" /\ loss_old' = lc
    /\ UNCHANGED <<X, calls, ret, hvVars, fitVars, r, lam, beta, max_iter, tol>>

\* return Z
CMReturn ==
    /\ CanReturn
    /\ ret' = Z
    /\ pc' = "done"
    /\ UNCHANGED <<X, calls, err, hvVars, fitVars, r, Z, lam, beta, max_iter, tol,
                   loss_old, loss_current, conv, iter>>

NextCM == CMEnter \/ CMIterate \/ CMReturn

\* complete_matrix(X, max_iter=..., tol=...) on tall inputs: no initial estimate,
\* lam and beta at their defaults.
InitSeed ==
    /\ IdleHV
    /\ IdleFit
    /\ X \in TallInputs
    /\ Z = NoMat
    /\ lam = Scale
    /\ beta = Scale
    /\ max_iter \in 0..MaxIter
    /\ tol = Scale \div 1000
    /\ r = Unset
    /\ loss_old = Unset
    /\ loss_current = Unset
    /\ conv = [kind |-> "unset", val |-> 0]
    /\ iter = 0
    /\ pc = "start"
    /\ calls = <<>>
    /\ ret = NoMat
    /\ err = ""

SpecSeed == InitSeed /\ [][NextCM]_vars

SpecCM == InitCM /\ [][NextCM]_vars

(***************************************************************************)
(* Properties of low_rank_approx and complete_matrix.                      *)
(***************************************************************************)
\* C3: low_rank_approx(X, r) raises for every r outside 1 <= r <= min(m, n);
\* it never returns a matrix for such an r.
C3_RankOutOfRangeRaises ==
    (calls = <<"low_rank_approx">> /\ (r < 1 \/ r > Min(X.shape[1], X.shape[2])))
        => err # ""

\* Entry (i, j) of the sum of the first n rank-1 terms d_k * outer(u_k, v_k).
RECURSIVE TopTerms(_, _, _, _)
TopTerms(sv, i, j, n) ==
    IF n = 0 THEN 0
    ELSE sv.s[n] * sv.u.at[<<i, n - 1>>] * sv.v.at[<<n - 1, j>>] + TopTerms(sv, i, j, n - 1)

\* C4: for every m x n matrix X, tall, square or wide, and every
\* 1 <= r <= min(m, n), low_rank_approx(X, r) returns a matrix of the shape of
\* X that is the sum of the first r rank-1 terms of the economy SVD of X.
C4_LowRankApproxIsTruncatedSVD ==
    (calls = <<"low_rank_approx">> /\ 1 <= r /\ r <= Min(X.shape[1], X.shape[2])) =>
        /\ err = ""
        /\ ret.shape = X.shape
        /\ \A ij \in Idx(X.shape[1], X.shape[2]) :
             ret.at[ij] = TopTerms(svd(X, FALSE), ij[1], ij[2], r)

Seeded == "low_rank_approx" \in {calls[i] : i \in 1..Len(calls)}

\* C5 as stated: without an initial estimate, the rank of the seed is
\* max(1, round(0.1 * m)), m the row count of X.
C5_SeedRankRounded ==
    Seeded => r = Max(1, (X.shape[1] + 5) \div 10)

\* C5 as amended: without an initial estimate, the rank of the seed is
\* max(1, floor(0.1 * m)): the 10% of the row count is truncated, not rounded.
C5_SeedRankTruncated ==
    Seeded => r = Max(1, X.shape[1] \div 10)

\* A matrix of 16 rows, where rounding would give 2, has been seeded with rank 1.
C5_Witness ==
    /\ Seeded
    /\ X.shape[1] = 16
    /\ r = 1
    /\ pc = "loop"

\* C6: a zero loss of the initial estimate ends the call at once: the next
\* step is the return, with no loop body run and no quotient by the zero loss.
C6_ZeroInitialLossStops ==
    [][(pc = "loop" /\ iter = 0 /\ loss_old = 0)
          => (pc' = "done" /\ iter' = 0 /\ conv' = conv /\ err' = "")]_vars

StopTest == loss_current = 0 \/ (conv.kind = "num" /\ conv.val < tol)

\* C7: the loop of complete_matrix ends: it runs at most max_iter bodies, every
\* body is followed by another only when neither loss_current == 0 nor
\* conv < tol held in it, and the call then returns the last Z without an
\* error, also when max_iter bodies ran and the test never held; before the
\* return or an exception there is always a next step.
C7_LoopEnds ==
    /\ iter <= max_iter
    /\ (pc = "loop" /\ iter > 0) => ~StopTest
    /\ pc = "break" => (iter > 0 /\ StopTest)
    /\ pc = "done" => (err = "" /\ ret = Z /\ (iter = max_iter \/ StopTest))
    /\ pc \in {"done", "raised"} \/ CanEnter \/ CanIterate \/ CanReturn

\* max_iter = 3 bodies have run without the test holding, and Z is returned.
C7_Witness ==
    /\ pc = "done"
    /\ max_iter = 3
    /\ iter = 3
    /\ ~StopTest
    /\ err = ""
    /\ ret = Z

(***************************************************************************)
(* BayesRegression and BayesRegressionClassifier, with one feature: the    *)
(* features are a sequence of numbers (an n x 1 array), the targets a      *)
(* sequence of numbers or labels, a weight is the fraction num / den.      *)
(***************************************************************************)
\* lam=1 of __init__
self_lam == 1

\* self._set_internal_classes([-1,1])
_internal_classes == <<-1, 1>>

\* init_model: SKGaussianParams(dim[1], init_mean_val=init_val, init_var_val=1),
\* with init_val=0
init_model == [mu |-> 0, Sigma |-> 1]

RECURSIVE SumProd(_, _)
SumProd(p, q) ==
    IF p = <<>> THEN 0 ELSE Head(p) * Head(q) + SumProd(Tail(p), Tail(q))

\* np.linalg.lstsq(1.0/lam * covX.dot(X) + eye, 1.0/lam * covX.dot(y) + mu)[0],
\* with covX = Sigma.dot(X.T): numerator and denominator multiplied by lam
lstsq(prior, features, y) ==
    [num |-> prior.Sigma * SumProd(features, y) + self_lam * prior.mu,
     den |-> prior.Sigma * SumProd(features, features) + self_lam]

\* BayesRegression.fit: the fields after the call, or the exception raised
\* with the fields left as they are
BayesRegression_fit(prior, weights, features, targets) ==
    IF Len(features) # Len(targets)
    THEN [err |-> "ValueError", prior |-> prior, weights |-> weights]
    ELSE LET p == IF prior = NoneField THEN init_model ELSE prior[1]
         IN  [err |-> "", prior |-> Some(p), weights |-> Some(lstsq(p, features, targets))]

\* np.unique(targets): the classes in ascending order
unique(targets) == SortAsc({targets[i] : i \in 1..Len(targets)})

\* _convert_classes: the targets as -1 / 1 and the two classes
_convert_classes(targets) ==
    LET classes == unique(targets)
    IN  IF Len(classes) # 2
        THEN [err |-> "ValueError", y |-> <<>>, classes |-> <<>>]
        ELSE [err |-> "",
              y |-> [i \in 1..Len(targets) |->
                       IF targets[i] = classes[1] THEN _internal_classes[1]
                                                  ELSE _internal_classes[2]],
              classes |-> classes]

\* BayesRegressionClassifier.fit: self._classes is assigned as soon as
\* _convert_classes returns, before BayesRegression.fit checks the sample counts
Classifier_fit(prior, weights, classes, features, targets) ==
    LET C == _convert_classes(targets)
        F == BayesRegression_fit(prior, weights, features, C.y)
    IN  IF C.err # ""
        THEN [err |-> C.err, prior |-> prior, weights |-> weights, classes |-> classes]
        ELSE [err |-> F.err, prior |-> F.prior, weights |-> F.weights,
              classes |-> Some(C.classes)]

sign(x) == IF x > 0 THEN 1 ELSE IF x < 0 THEN -1 ELSE 0

\* BayesRegression.predict: features.dot(w), w the weights or the mean of the prior
BayesRegression_predict(prior, weights, features) ==
    IF weights = NoneField /\ prior = NoneField
    THEN [err |-> "AttributeError", val |-> <<>>]
    ELSE LET w == IF weights = NoneField THEN [num |-> prior[1].mu, den |-> 1]
                                         ELSE weights[1]
         IN  [err |-> "",
              val |-> [i \in 1..Len(features) |-> [num |-> features[i] * w.num, den |-> w.den]]]

\* _recover_classes(np.sign(pred)): -1 gives the first class, 1 the second, and
\* 0 stays 0, the index of the first
Classifier_predict(prior, weights, classes, features) ==
    LET P == BayesRegression_predict(prior, weights, features)
    IN  IF P.err # "" THEN P
        ELSE IF classes = NoneField THEN [err |-> "TypeError", val |-> <<>>]
        ELSE [err |-> "",
              val |-> [i \in 1..Len(features) |->
                         IF sign(P.val[i].num * P.val[i].den) = _internal_classes[2]
                         THEN classes[1][2] ELSE classes[1][1]]]

MaxSamples == 2

FeatureValues == {-1, 1}

TargetValues == {0, 1, 2}

SeqsUpTo(S, n) == UNION {[1..k -> S] : k \in 1..n}

InitFit ==
    /\ IdleHV
    /\ IdleCM
    /\ X = NoMat
    /\ cls \in {"BayesRegression", "BayesRegressionClassifier"}
    /\ _prior = NoneField
    /\ _weights = NoneField
    /\ _classes = NoneField
    /\ calls = <<>>
    /\ ret = <<>>
    /\ err = ""

\* fit(features, targets)
Fit ==
    /\ cls # None
    /\ \E features \in SeqsUpTo(FeatureValues, MaxSamples) :
       \E targets \in SeqsUpTo(TargetValues, MaxSamples) :
       \E R \in {IF cls = "BayesRegression"
                 THEN [c \in {"classes"} |-> _classes]
                          @@ BayesRegression_fit(_prior, _weights, features, targets)
                 ELSE Classifier_fit(_prior, _weights, _classes, features, targets)} :
           /\ _prior' = R.prior
           /\ _weights' = R.weights
           /\ _classes' = R.classes
           /\ err' = R.err
    /\ ret' = <<>>
    /\ calls' = <<"fit">>
    /\ UNCHANGED <<X, cls, hvVars, cmVars>>

\* predict(features)
Predict ==
    /\ cls # None
    /\ \E features \in SeqsUpTo(FeatureValues, MaxSamples) :
       \E R \in {IF cls = "BayesRegression"
                 THEN BayesRegression_predict(_prior, _weights, features)
                 ELSE Classifier_predict(_prior, _weights, _classes, features)} :
           /\ ret' = R.val
           /\ err' = R.err
    /\ calls' = <<"predict">>
    /\ UNCHANGED <<X, hvVars, cmVars, fitVars>>

NextFit == Fit \/ Predict

SpecFit == InitFit /\ [][NextFit]_vars

\* C10: a fit call that raises ValueError leaves _prior, _weights and _classes
\* as they were before the call.
C10_FailedFitChangesNothing ==
    [][(calls' = <<"fit">> /\ err' = "ValueError")
          => (_prior' = _prior /\ _weights' = _weights /\ _classes' = _classes)]_vars

====
